---- MODULE Spec2Model ----
(***************************************************************************)
(* Model of GLTFExport (src/gltfexport.cpp): the export of a pixel grid    *)
(* to a glTF document.  GLTFExport::write is a straight-line computation;  *)
(* it is modelled as the sequence of its calls, one action each:           *)
(*   write -> buildUniqueVectors -> assemble (insertInfo .. insertMaterials)*)
(*         -> insertShapeData -> writeModel                                *)
(* JSON values carry their QJsonValue type, so that the difference between *)
(* an absent key (Undefined) and a null value (Null) is part of the model. *)
(***************************************************************************)
EXTENDS Integers, Sequences, FiniteSets, TLC

(* ------------------------------------------------------------------ *)
(* Bounds of the explored inputs                                       *)
(* ------------------------------------------------------------------ *)
MaxRows == 3
MaxCols == 4

(* ------------------------------------------------------------------ *)
(* QJsonValue                                                          *)
(* ------------------------------------------------------------------ *)
Undefined == [type |-> "Undefined"]
Null == [type |-> "Null"]
JString(s) == [type |-> "String", v |-> s]
JNumber(n) == [type |-> "Double", v |-> n]
JArray(seq) == [type |-> "Array", v |-> seq]
JObject(obj) == [type |-> "Object", v |-> obj]

\* QJsonValue::isNull: true for the Null type only, not for Undefined
isNull(val) == val.type = "Null"

\* QJsonValue::toString: the string, or the default "" for any other type
toString(val) == IF val.type = "String" THEN val.v ELSE ""

\* QJsonValue::toInt: the integer, or the default 0 for any other type
toInt(val) == IF val.type = "Double" THEN val.v ELSE 0

\* QJsonObject::take(key): the value, or Undefined when the key is absent
take(obj, key) == IF key \in DOMAIN obj THEN obj[key] ELSE Undefined

\* QJsonObject::insert(key, value): an Undefined value removes the key
insert(obj, key, val) ==
    LET rest == [k \in (DOMAIN obj) \ {key} |-> obj[k]]
    IN  IF val.type = "Undefined" THEN rest ELSE (key :> val) @@ rest

(* ------------------------------------------------------------------ *)
(* Inputs                                                              *)
(* ------------------------------------------------------------------ *)
EmptyObject == [k \in {} |-> Undefined]

\* a cell record whose three fields are JSON null
NullCell == [shape |-> Null, color |-> Null, depth |-> Null]

CellKinds ==
    { [shape |-> JString("cube"), color |-> JString("red"),  depth |-> JNumber(4)],
      [shape |-> JString("ball"), color |-> JString("blue"), depth |-> JNumber(1)],
      [shape |-> JString("cube"), color |-> JString("blue"), depth |-> JNumber(0)],
      [color |-> JString("red"), depth |-> JNumber(4)],
      [shape |-> JString("cube"), color |-> Null, depth |-> JNumber(4)],
      EmptyObject }

\* the positions of an r x c grid, and (0, 0) for the grid without rows
Positions(r, c) == ((0 .. r - 1) \X (0 .. c - 1)) \cup {<<0, 0>>}

\* row-major order of the positions
Before(q, p) == q[1] < p[1] \/ (q[1] = p[1] /\ q[2] < p[2])

\* the r x c grid holding cell k1 at p1, k2 at p2 and the null cell elsewhere
GridOf(r, c, p1, k1, p2, k2) ==
    [i \in 1 .. r |-> [j \in 1 .. c |->
        IF <<i - 1, j - 1>> = p2 THEN k2
        ELSE IF <<i - 1, j - 1>> = p1 THEN k1
        ELSE NullCell]]

Versions == {"1.0", "0.9"}

\* the declared sizes tried with a grid of r rows
Sizes(r) == {r, r + 1}

\* the inputs whose grid is g
InputsOf(g) ==
    [version : {JString(ver) : ver \in Versions},
     width   : {JNumber(n) : n \in Sizes(Len(g))},
     height  : {JNumber(n) : n \in Sizes(Len(g))},
     pixels  : {g}]

Files == <<"a.gltf", "b.gltf">>
NoFile == [absent |-> TRUE]

\* what the resource system holds for ":/ui/exports/<shape>.gltf"
TemplateStates == {"missing", "unopenable", "unparseable", "ok"}

(* ------------------------------------------------------------------ *)
(* State                                                               *)
(* ------------------------------------------------------------------ *)
VARIABLES
    pc,             \* position of the current invocation of write
    calls,          \* number of invocations of write started so far
    data,           \* the QJsonObject passed to write
    localFileName,  \* the destination of the current invocation
    pixelMap,       \* write: the "pixels" array
    height,         \* write: the declared "height"
    nodes,          \* write: QVector<Node>
    shapes,         \* write: QVector<QString>
    colors,         \* write: QVector<QString>
    meshes,         \* write: QVector<QPair<int, int>>
    uniqueShapes,   \* buildUniqueVectors: QMap<QString, int>
    uniqueColors,   \* buildUniqueVectors: QMap<QString, int>
    uniqueMeshes,   \* buildUniqueVectors: QMap<QPair<int, int>, int>
    exportModel,    \* write: the document under assembly
    signals,        \* the signals emitted by the current invocation
    sink,           \* the content of each destination file
    resources,      \* what is known of the shape files of the resource system
    firstModel      \* the document and signals of the first invocation

vars == <<pc, calls, data, localFileName, pixelMap, height, nodes, shapes, colors,
          meshes, uniqueShapes, uniqueColors, uniqueMeshes, exportModel, signals,
          sink, resources, firstModel>>

EmptyMap == [k \in {} |-> 0]

NoData == [version |-> Undefined, width |-> Undefined, height |-> Undefined,
           pixels |-> <<>>]

Init ==
    /\ pc = "idle"
    /\ calls = 0
    /\ data = NoData
    /\ localFileName = ""
    /\ pixelMap = <<>>
    /\ height = 0
    /\ nodes = <<>>
    /\ shapes = <<>>
    /\ colors = <<>>
    /\ meshes = <<>>
    /\ uniqueShapes = EmptyMap
    /\ uniqueColors = EmptyMap
    /\ uniqueMeshes = EmptyMap
    /\ exportModel = EmptyObject
    /\ signals = <<>>
    /\ sink = [f \in {Files[n] : n \in DOMAIN Files} |-> NoFile]
    /\ resources = EmptyMap
    /\ firstModel = NoFile

(* ------------------------------------------------------------------ *)
(* Signals                                                             *)
(* ------------------------------------------------------------------ *)
error(file, msg) == [signal |-> "error", file |-> file, msg |-> msg]
exported(file) == [signal |-> "exported", file |-> file, msg |-> <<>>]

\* the messages of write, as the sequence of the concatenated parts
VersionMessage(version) == <<"Invalid version number [1.0 != ", version, "]">>
SizeMessage == <<"invalid size">>
ShapeMessage == <<"Can't find or open shape files">>
WriteMessage == <<"Can't write to file!">>

(* ------------------------------------------------------------------ *)
(* GLTFExport::write, lines 10-29: validation and the fresh locals     *)
(* ------------------------------------------------------------------ *)
VersionOk(version) == version = "1.0"

\* a size check that accepts every size
AnySize(width, h) == TRUE

SizeOk(width, h) == width = h

\* a node vector that outlives the invocation, as a member would
StaleNodes == nodes

\* QVector<Node> nodes, a local of write
LocalNodes == <<>>

write(fileName, d) ==
    /\ pc = "idle"
    /\ calls' = calls + 1
    /\ data' = d
    /\ localFileName' = fileName
    /\ nodes' = LocalNodes
    /\ shapes' = <<>>
    /\ colors' = <<>>
    /\ meshes' = <<>>
    /\ exportModel' = EmptyObject
    /\ LET version == toString(take(d, "version"))
           width == toInt(take(d, "width"))
           h == toInt(take(d, "height"))
       IN  IF ~VersionOk(version)
           THEN /\ signals' = <<error(fileName, VersionMessage(version))>>
                /\ pc' = "done"
                /\ UNCHANGED <<height, pixelMap>>
           ELSE IF ~SizeOk(width, h)
           THEN /\ signals' = <<error(fileName, SizeMessage)>>
                /\ pc' = "done"
                /\ UNCHANGED <<height, pixelMap>>
           ELSE /\ signals' = <<>>
                /\ height' = h
                /\ pixelMap' = d.pixels
                /\ pc' = "buildUniqueVectors"
    /\ UNCHANGED <<uniqueShapes, uniqueColors, uniqueMeshes, sink, resources, firstModel>>

(* ------------------------------------------------------------------ *)
(* GLTFExport::buildUniqueVectors, lines 52-125                        *)
(* ------------------------------------------------------------------ *)
\* the condition of the continue at lines 70-71
Skipped(itemColor, itemShape, itemDepth) ==
    isNull(itemColor) \/ isNull(itemShape) \/ isNull(itemDepth)

\* lines 76-82, 84-90, 92-99: the index of a key, a new one for a new key
IndexOf(map, key) ==
    IF key \notin DOMAIN map THEN Cardinality(DOMAIN map) ELSE map[key]

\* QMap::insert of a key with its index (no change when already there)
Inserted(map, key) == (key :> IndexOf(map, key)) @@ map

\* the body of the inner loop, lines 66-102, on the cell at row i, column j
ProcessCell(st, item, i, j) ==
    LET itemColor == take(item, "color")
        itemShape == take(item, "shape")
        itemDepth == take(item, "depth")
    IN  IF Skipped(itemColor, itemShape, itemDepth) THEN st
        ELSE LET color == toString(itemColor)
                 shape == toString(itemShape)
                 depth == toInt(itemDepth)
                 shapeIdx == IndexOf(st.uniqueShapes, shape)
                 colorIdx == IndexOf(st.uniqueColors, color)
                 mesh == <<shapeIdx, colorIdx>>
                 meshIdx == IndexOf(st.uniqueMeshes, mesh)
             IN  [uniqueShapes |-> Inserted(st.uniqueShapes, shape),
                  uniqueColors |-> Inserted(st.uniqueColors, color),
                  uniqueMeshes |-> Inserted(st.uniqueMeshes, mesh),
                  nodes |-> Append(st.nodes,
                              [mesh |-> meshIdx, depth |-> depth, row |-> i, col |-> j])]

\* the inner loop, lines 65-103, from column j
RECURSIVE ProcessRow(_, _, _, _)
ProcessRow(st, row, i, j) ==
    IF j < Len(row) THEN ProcessRow(ProcessCell(st, row[j + 1], i, j), row, i, j + 1)
    ELSE st

\* the outer loop, lines 63-104, from row i
RECURSIVE ProcessRows(_, _, _)
ProcessRows(st, map, i) ==
    IF i < Len(map) THEN ProcessRows(ProcessRow(st, map[i + 1], i, 0), map, i + 1)
    ELSE st

\* a vector filled from its last position backwards
VectorReversed(map) ==
    [n \in 1 .. Cardinality(DOMAIN map) |->
        CHOOSE k \in DOMAIN map : map[k] = Cardinality(DOMAIN map) - n]

\* lines 108-124: the vector holding each key at the position of its index
VectorOf(map) ==
    [n \in 1 .. Cardinality(DOMAIN map) |-> CHOOSE k \in DOMAIN map : map[k] = n - 1]

\* buildUniqueVectors(pixelMap, shapes, colors, meshes, nodes): the maps are
\* fresh locals (lines 60-61), the nodes are appended to the vector passed in
buildUniqueVectors(map, nds) ==
    LET st == ProcessRows([uniqueShapes |-> EmptyMap, uniqueColors |-> EmptyMap,
                           uniqueMeshes |-> EmptyMap, nodes |-> nds], map, 0)
    IN  [uniqueShapes |-> st.uniqueShapes,
         uniqueColors |-> st.uniqueColors,
         uniqueMeshes |-> st.uniqueMeshes,
         nodes  |-> st.nodes,
         shapes |-> VectorOf(st.uniqueShapes),
         colors |-> VectorOf(st.uniqueColors),
         meshes |-> VectorOf(st.uniqueMeshes)]

\* write, line 31
writeBuild ==
    /\ pc = "buildUniqueVectors"
    /\ LET r == buildUniqueVectors(pixelMap, nodes)
       IN  /\ uniqueShapes' = r.uniqueShapes
           /\ uniqueColors' = r.uniqueColors
           /\ uniqueMeshes' = r.uniqueMeshes
           /\ nodes' = r.nodes
           /\ shapes' = r.shapes
           /\ colors' = r.colors
           /\ meshes' = r.meshes
    /\ pc' = "assemble"
    /\ UNCHANGED <<calls, data, localFileName, pixelMap, height, exportModel, signals,
                   sink, resources, firstModel>>

(* ------------------------------------------------------------------ *)
(* The document: insertInfo .. insertMaterials, lines 127-217          *)
(* ------------------------------------------------------------------ *)
insertInfo(model) ==
    insert(model, "asset",
           JObject([generator |-> "Pixel Model Maker", version |-> "2.0"]))

\* a scene that references the first node of the array
insertSceneFirst(model, numNodes) ==
    insert(insert(model, "scene", JNumber(0)),
           "scenes", JArray(<<[nodes |-> <<0>>]>>))

\* the scene's node list holds the index numNodes
insertScene(model, numNodes) ==
    insert(insert(model, "scene", JNumber(0)),
           "scenes", JArray(<<[nodes |-> <<numNodes>>]>>))

\* a cell node with row and column exchanged
NodeDefSwapped(node) ==
    [mesh |-> node.mesh,
     translation |-> <<node.col * 2 + 1, node.row * 2 + 1, 0>>,
     scale |-> <<1, 1, 2 * node.depth - 1>>]

\* lines 166-169: the definition of a cell node
NodeDef(node) ==
    [mesh |-> node.mesh,
     translation |-> <<node.row * 2 + 1, node.col * 2 + 1, 0>>,
     scale |-> <<1, 1, 2 * node.depth - 1>>]

\* a root node translated by the number of cell nodes instead of the height
RootDefByNodes(numNodes, h) ==
    [children |-> [n \in 1 .. numNodes |-> n - 1],
     translation |-> <<0, 2 * numNodes, 0>>,
     rotation |-> <<"0", "0", "-0.7071068286895752", "0.7071068286895752">>]

\* lines 179-184: the additional node, parent of all the others
RootDef(numNodes, h) ==
    [children |-> [n \in 1 .. numNodes |-> n - 1],
     translation |-> <<0, 2 * h, 0>>,
     rotation |-> <<"0", "0", "-0.7071068286895752", "0.7071068286895752">>]

insertNodes(model, nds, h) ==
    insert(model, "nodes",
           JArray(Append([n \in 1 .. Len(nds) |-> NodeDef(nds[n])],
                         RootDef(Len(nds), h))))

\* lines 201-207: the definition of the mesh of a (shape index, color index)
MeshDef(mesh) ==
    [primitives |-> <<[attributes |-> [POSITION |-> mesh[1] * 3,
                                       NORMAL |-> mesh[1] * 3 + 1],
                       indices |-> mesh[1] * 3 + 2,
                       material |-> mesh[2]]>>]

insertMeshes(model, mshs) ==
    insert(model, "meshes", JArray([n \in 1 .. Len(mshs) |-> MeshDef(mshs[n])]))

\* QColor(name): the channels of a named color, in 255ths; a string that names
\* no color gives the invalid color, whose channels read 0, 0, 0 and alpha 1
QColor(name) ==
    IF name = "red" THEN <<255, 0, 0, 255>>
    ELSE IF name = "blue" THEN <<0, 0, 255, 255>>
    ELSE <<0, 0, 0, 255>>

\* the default arguments of materialsFromColors
MetallicFactor == 0
RoughnessFactor == 1

\* a loop over the colors that starts at the second one
materialsSkipFirst(cols, metallicFactor, roughnessFactor) ==
    [n \in 1 .. Len(cols) - 1 |->
        [pbrMetallicRoughness |->
            [baseColorFactor |-> QColor(cols[n + 1]),
             metallicFactor |-> metallicFactor,
             roughnessFactor |-> roughnessFactor]]]

materialsFromColors(cols, metallicFactor, roughnessFactor) ==
    [n \in 1 .. Len(cols) |->
        [pbrMetallicRoughness |->
            [baseColorFactor |-> QColor(cols[n]),
             metallicFactor |-> metallicFactor,
             roughnessFactor |-> roughnessFactor]]]

insertMaterials(model, cols) ==
    insert(model, "materials",
           JArray(materialsFromColors(cols, MetallicFactor, RoughnessFactor)))

\* write, lines 33-39
writeAssemble ==
    /\ pc = "assemble"
    /\ exportModel' =
          insertMaterials(
            insertMeshes(
              insertNodes(
                insertScene(insertInfo(EmptyObject), Len(nodes)),
                nodes, height),
              meshes),
            colors)
    /\ pc' = "insertShapeData"
    /\ UNCHANGED <<calls, data, localFileName, pixelMap, height, nodes, shapes, colors,
                   meshes, uniqueShapes, uniqueColors, uniqueMeshes, signals, sink,
                   resources, firstModel>>

(* ------------------------------------------------------------------ *)
(* GLTFExport::insertShapeData, lines 219-239                          *)
(* ------------------------------------------------------------------ *)
\* QJsonDocument::fromJson(shapeFile.readAll()).object(): the object of the
\* file, or the empty object when the content does not parse
shapeDef(name, state) ==
    IF state = "ok"
    THEN [buffers |-> JArray(<<name, "buffers">>),
          bufferViews |-> JArray(<<name, "bufferViews">>),
          accessors |-> JArray(<<name, "accessors">>)]
    ELSE EmptyObject

\* the result of insertShapeData for a first shape whose file is in `state`
insertShapeData(model, name, state) ==
    IF state = "missing" THEN [ok |-> FALSE, model |-> model]
    ELSE IF state = "unopenable" THEN [ok |-> FALSE, model |-> model]
    ELSE LET def == shapeDef(name, state)
         IN  [ok |-> TRUE,
              model |-> insert(insert(insert(model,
                            "buffers", take(def, "buffers")),
                            "bufferViews", take(def, "bufferViews")),
                            "accessors", take(def, "accessors"))]

\* write, lines 40-43.  shapes[0] of an empty vector (line 225) is undefined
\* behaviour: the read aborts or faults, or yields a string naming no file.
writeShapeData ==
    /\ pc = "insertShapeData"
    /\ IF shapes = <<>>
       THEN /\ \E outcome \in {"crash", "nofile"} :
                 IF outcome = "crash"
                 THEN pc' = "crashed" /\ signals' = signals
                 ELSE pc' = "done" /\ signals' = <<error(localFileName, ShapeMessage)>>
            /\ UNCHANGED <<exportModel, resources>>
       ELSE \E state \in TemplateStates :
              /\ shapes[1] \in DOMAIN resources => state = resources[shapes[1]]
              /\ resources' = (shapes[1] :> state) @@ resources
              /\ LET r == insertShapeData(exportModel, shapes[1], state)
                 IN  IF r.ok
                     THEN /\ exportModel' = r.model
                          /\ signals' = signals
                          /\ pc' = "writeModel"
                     ELSE /\ exportModel' = exportModel
                          /\ signals' = <<error(localFileName, ShapeMessage)>>
                          /\ pc' = "done"
    /\ UNCHANGED <<calls, data, localFileName, pixelMap, height, nodes, shapes, colors,
                   meshes, uniqueShapes, uniqueColors, uniqueMeshes, sink, firstModel>>

(* ------------------------------------------------------------------ *)
(* GLTFExport::writeModel, lines 241-253                               *)
(* ------------------------------------------------------------------ *)
\* the destination after writeModel, by whether the file opens for writing
writeModel(model, fileName, opens) ==
    IF opens THEN [ok |-> TRUE, sink |-> [sink EXCEPT ![fileName] = model]]
    ELSE [ok |-> FALSE, sink |-> sink]

\* write, lines 45-49
writeOutput ==
    /\ pc = "writeModel"
    /\ \E opens \in BOOLEAN :
          LET r == writeModel(exportModel, localFileName, opens)
          IN  /\ sink' = r.sink
              /\ signals' = IF r.ok THEN <<exported(localFileName)>>
                            ELSE <<error(localFileName, WriteMessage)>>
    /\ pc' = "done"
    /\ UNCHANGED <<calls, data, localFileName, pixelMap, height, nodes, shapes, colors,
                   meshes, uniqueShapes, uniqueColors, uniqueMeshes, exportModel,
                   resources, firstModel>>

(* ------------------------------------------------------------------ *)
(* Specifications                                                      *)
(* ------------------------------------------------------------------ *)
\* the caller invokes write once; the grid is any grid of at most MaxRows x
\* MaxCols cells in which at most two cells are not the null cell
Call ==
    /\ calls = 0
    /\ \E r \in 0 .. MaxRows, c \in 1 .. MaxCols :
         \E p1 \in Positions(r, c), p2 \in Positions(r, c) :
           \E k1 \in CellKinds \cup {NullCell}, k2 \in CellKinds \cup {NullCell} :
              /\ Before(p1, p2) \/ (p1 = p2 /\ k1 = k2)
              /\ \E d \in InputsOf(GridOf(r, c, p1, k1, p2, k2)) : write(Files[1], d)

Next ==
    \/ Call
    \/ writeBuild
    \/ writeAssemble
    \/ writeShapeData
    \/ writeOutput

Spec == Init /\ [][Next]_vars

\* write has returned to the caller, who keeps the outcome of the first export
Return ==
    /\ pc = "done"
    /\ calls = 1
    /\ pc' = "idle"
    /\ firstModel' = [model |-> exportModel, signals |-> signals]
    /\ UNCHANGED <<calls, data, localFileName, pixelMap, height, nodes, shapes, colors,
                   meshes, uniqueShapes, uniqueColors, uniqueMeshes, exportModel,
                   signals, sink, resources>>

\* the caller exports the same input again, to another destination
CallAgain == calls = 1 /\ write(Files[2], data)

NextTwice ==
    \/ Call
    \/ writeBuild
    \/ writeAssemble
    \/ writeShapeData
    \/ writeOutput
    \/ Return
    \/ CallAgain

SpecTwice == Init /\ [][NextTwice]_vars

(* ------------------------------------------------------------------ *)
(* Vocabulary of the properties                                        *)
(* ------------------------------------------------------------------ *)
Fields == {"shape", "color", "depth"}

\* the positions (row, col) of the cells of a grid, 0-based
AllPositions(map) ==
    UNION { { <<i, j>> : j \in 0 .. Len(map[i + 1]) - 1 } : i \in 0 .. Len(map) - 1 }

CellAt(map, p) == map[p[1] + 1][p[2] + 1]

\* a cell in which shape, color and depth are all present
WellFormed(item) == \A key \in Fields : key \in DOMAIN item /\ item[key].type # "Null"

\* a cell the export retains: none of its three fields reads as JSON null
Retained(item) == \A key \in Fields : take(item, key).type # "Null"

WellFormedPositions(map) == { p \in AllPositions(map) : WellFormed(CellAt(map, p)) }
RetainedPositions(map) == { p \in AllPositions(map) : Retained(CellAt(map, p)) }

\* the n-th position of a set of positions in row-major order, n from 1
NthOf(ps, n) == CHOOSE p \in ps : Cardinality({ q \in ps : Before(q, p) }) = n - 1

\* the retained cells of a grid, in row-major order
RetainedStream(map) ==
    LET ps == RetainedPositions(map)
    IN  [n \in 1 .. Cardinality(ps) |-> NthOf(ps, n)]

\* the stream of the values of a field over the retained cells
FieldStream(map, key) ==
    LET ps == RetainedStream(map)
    IN  [n \in DOMAIN ps |-> toString(take(CellAt(map, ps[n]), key))]
ShapeStream(map) == FieldStream(map, "shape")
ColorStream(map) == FieldStream(map, "color")

InVersion == toString(data.version)
InWidth == toInt(data.width)
InHeight == toInt(data.height)
Accepted == calls > 0 /\ InVersion = "1.0" /\ InWidth = InHeight

Ended == pc \in {"done", "crashed"}
HasBuilt ==
    Accepted /\ pc \in {"assemble", "insertShapeData", "writeModel", "done", "crashed"}
HasDocument == Accepted /\ pc \in {"insertShapeData", "writeModel", "done", "crashed"}

Emitted(kind) == { n \in DOMAIN signals : signals[n].signal = kind }

\* the documents generated: the one assembled by this invocation and the
\* ones written to the destinations
Documents ==
    (IF HasDocument THEN {exportModel} ELSE {}) \cup
    { sink[f] : f \in { g \in DOMAIN sink : sink[g] # NoFile } }

DocNodes(doc) == doc["nodes"].v
DocMeshes(doc) == doc["meshes"].v
DocMaterials(doc) == doc["materials"].v
DocSceneNodes(doc) == doc["scenes"].v[1].nodes
\* the cell nodes of a document are its nodes with a mesh
CellNodes(doc) == { n \in DOMAIN DocNodes(doc) : "mesh" \in DOMAIN DocNodes(doc)[n] }

\* the state of the shape file of the first shape, once the export has read it
FirstRetained == NthOf(RetainedPositions(data.pixels), 1)
FirstShape == toString(take(CellAt(data.pixels, FirstRetained), "shape"))
FirstShapeKnown ==
    /\ Accepted
    /\ pc \in {"writeModel", "done"}
    /\ RetainedPositions(data.pixels) # {}
    /\ FirstShape \in DOMAIN resources
FirstShapeState == resources[FirstShape]

(* ------------------------------------------------------------------ *)
(* C1                                                                  *)
(* ------------------------------------------------------------------ *)
\* C1: buildUniqueVectors emits one node per cell in which shape, color and
\* depth are all present and none for a cell missing any of them (key absent
\* or empty record): the number of nodes is the number of well-formed cells.
C1_NodeCountIsWellFormedCount ==
    HasBuilt => Len(nodes) = Cardinality(WellFormedPositions(pixelMap))

(* ------------------------------------------------------------------ *)
(* C2                                                                  *)
(* ------------------------------------------------------------------ *)
\* C2: a version other than "1.0" ends with the version error, a width that
\* differs from the height with the invalid-size error, a valid grid whose
\* first shape has no template with the template error; in these runs the
\* destination is never written and exported is never emitted.
C2_Rejections ==
    /\ (Ended /\ calls > 0 /\ InVersion # "1.0")
          => signals = <<error(localFileName, VersionMessage(InVersion))>>
    /\ (Ended /\ calls > 0 /\ InVersion = "1.0" /\ InWidth # InHeight)
          => signals = <<error(localFileName, SizeMessage)>>
    /\ (Ended /\ FirstShapeKnown /\ FirstShapeState = "missing")
          => signals = <<error(localFileName, ShapeMessage)>>
    /\ (calls > 0 /\ (\/ InVersion # "1.0"
                      \/ InWidth # InHeight
                      \/ (FirstShapeKnown /\ FirstShapeState = "missing")))
          => /\ sink[localFileName] = NoFile
             /\ Emitted("exported") = {}

\* an export of a valid grid has ended on the template error
C2_Witness ==
    /\ pc = "done"
    /\ FirstShapeKnown
    /\ FirstShapeState = "missing"
    /\ signals = <<error(localFileName, ShapeMessage)>>
    /\ Len(nodes) > 0

(* ------------------------------------------------------------------ *)
(* C3                                                                  *)
(* ------------------------------------------------------------------ *)
\* C3: the template resolver fails with "template not found" when the bundle
\* of the first shape cannot be located and with a distinct "template
\* unreadable" condition when it is located but cannot be parsed; a located
\* but unparseable bundle never leads to a successful export.
C3_DistinctTemplateFailures ==
    /\ (Ended /\ FirstShapeKnown /\ FirstShapeState = "missing")
          => /\ Len(signals) = 1
             /\ signals[1].signal = "error"
    /\ (/\ Ended
        /\ FirstShapeKnown
        /\ WellFormed(CellAt(data.pixels, FirstRetained))
        /\ FirstShapeState = "unparseable")
          => /\ Len(signals) = 1
             /\ signals[1].signal = "error"
             /\ signals[1].msg # ShapeMessage
             /\ sink[localFileName] = NoFile

(* ------------------------------------------------------------------ *)
(* C4                                                                  *)
(* ------------------------------------------------------------------ *)
FirstPos(stream, key) ==
    CHOOSE n \in DOMAIN stream :
        stream[n] = key /\ \A m \in 1 .. n - 1 : stream[m] # key

\* a dictionary and its exported vector, after the keys of `stream`
DictionaryOk(map, vec, stream) ==
    /\ DOMAIN map = { stream[n] : n \in DOMAIN stream }
    /\ { map[k] : k \in DOMAIN map } = 0 .. Cardinality(DOMAIN map) - 1
    /\ \A k1, k2 \in DOMAIN map :
          /\ FirstPos(stream, k1) < FirstPos(stream, k2) => map[k1] < map[k2]
          /\ k1 # k2 => map[k1] # map[k2]
    /\ Len(vec) = Cardinality(DOMAIN map)
    /\ \A n \in DOMAIN vec : vec[n] \in DOMAIN map /\ map[vec[n]] = n - 1

\* the (shape index, color index) pairs of the retained cells
MeshStream(shapeStream, colorStream) ==
    [n \in DOMAIN shapeStream |->
        <<uniqueShapes[shapeStream[n]], uniqueColors[colorStream[n]]>>]

\* C4: after buildUniqueVectors each of the three dictionaries assigns the
\* indices 0..size-1 in first-seen order (earlier first-seen key, smaller
\* index; equal keys, same index; distinct keys, distinct indices) and the
\* exported vector holds at position i the key whose index is i.
C4_FirstSeenIndices ==
    HasBuilt =>
        LET shapeStream == ShapeStream(pixelMap)
            colorStream == ColorStream(pixelMap)
        IN  /\ DictionaryOk(uniqueShapes, shapes, shapeStream)
            /\ DictionaryOk(uniqueColors, colors, colorStream)
            /\ LET meshStream == MeshStream(shapeStream, colorStream)
               IN  /\ DictionaryOk(uniqueMeshes, meshes, meshStream)
                   /\ Len(nodes) = Len(meshStream)
                   /\ \A n \in DOMAIN nodes :
                         nodes[n].mesh = uniqueMeshes[meshStream[n]]

\* two shapes, two colors and two meshes were indexed, the first-seen shape
\* being the later one in the order of the keys
C4_Witness ==
    /\ HasBuilt
    /\ shapes = <<"cube", "ball">>
    /\ colors = <<"red", "blue">>
    /\ meshes = <<<<0, 0>>, <<1, 1>>>>

(* ------------------------------------------------------------------ *)
(* C5                                                                  *)
(* ------------------------------------------------------------------ *)
\* C5: in every generated document every cell node's mesh index is smaller
\* than the length of the mesh array and every mesh's material index is
\* smaller than the length of the material array.
C5_CrossReferences ==
    \A doc \in Documents :
        /\ \A n \in CellNodes(doc) :
              /\ DocNodes(doc)[n].mesh >= 0
              /\ DocNodes(doc)[n].mesh < Len(DocMeshes(doc))
        /\ \A m \in DOMAIN DocMeshes(doc) :
              /\ DocMeshes(doc)[m].primitives[1].material >= 0
              /\ DocMeshes(doc)[m].primitives[1].material < Len(DocMaterials(doc))

\* a written document with two meshes and two materials
C5_Witness ==
    /\ pc = "done"
    /\ sink[localFileName] # NoFile
    /\ Len(DocMeshes(sink[localFileName])) = 2
    /\ Len(DocMaterials(sink[localFileName])) = 2
    /\ CellNodes(sink[localFileName]) = {1, 2}

(* ------------------------------------------------------------------ *)
(* C6                                                                  *)
(* ------------------------------------------------------------------ *)
\* C6: a generated document with numCells cell nodes has numCells+1 nodes,
\* the last one the root node with children exactly [0, .., numCells-1] in
\* increasing order, and the single scene's node list is exactly [numCells].
C6_RootNode ==
    \A doc \in Documents :
        LET numCells == Cardinality(CellNodes(doc))
            arr == DocNodes(doc)
        IN  /\ Len(arr) = numCells + 1
            /\ CellNodes(doc) = 1 .. numCells
            /\ "children" \in DOMAIN arr[Len(arr)]
            /\ arr[Len(arr)].children = [n \in 1 .. numCells |-> n - 1]
            /\ Len(doc["scenes"].v) = 1
            /\ DocSceneNodes(doc) = <<numCells>>

\* a written document with two cell nodes
C6_Witness ==
    /\ pc = "done"
    /\ sink[localFileName] # NoFile
    /\ Len(DocNodes(sink[localFileName])) = 3
    /\ DocNodes(sink[localFileName])[3].children = <<0, 1>>
    /\ DocSceneNodes(sink[localFileName]) = <<2>>

(* ------------------------------------------------------------------ *)
(* C7                                                                  *)
(* ------------------------------------------------------------------ *)
\* C7: the cell node at position i is the i-th retained cell in row-major
\* order; the node of a retained cell at (row, col) with depth d has
\* translation (row*2+1, col*2+1, 0) and scale (1, 1, 2*d-1).
C7_Coordinates ==
    HasDocument =>
        LET stream == RetainedStream(pixelMap)
        IN  /\ CellNodes(exportModel) = DOMAIN stream
            /\ \A n \in DOMAIN stream :
                  LET p == stream[n]
                      item == CellAt(pixelMap, p)
                      def == DocNodes(exportModel)[n]
                  IN  /\ nodes[n].row = p[1] /\ nodes[n].col = p[2]
                      /\ def.translation = <<p[1] * 2 + 1, p[2] * 2 + 1, 0>>
                      /\ WellFormed(item) => def.scale = <<1, 1, 2 * item.depth.v - 1>>

\* the cell at (row 2, col 3) with depth 4 is the second node of a document
C7_Witness ==
    /\ HasDocument
    /\ pc = "done"
    /\ Len(pixelMap) = 3
    /\ Len(pixelMap[3]) = 4
    /\ WellFormed(pixelMap[3][4])
    /\ pixelMap[3][4].depth.v = 4
    /\ Len(nodes) = 2
    /\ DocNodes(exportModel)[2].translation = <<5, 7, 0>>
    /\ DocNodes(exportModel)[2].scale = <<1, 1, 7>>

(* ------------------------------------------------------------------ *)
(* C8                                                                  *)
(* ------------------------------------------------------------------ *)
\* C8: exporting the same valid input twice, with the same template, gives
\* identical documents: nothing of the second export depends on what the
\* first one left.
C8_SameDocumentTwice ==
    (/\ pc = "done"
     /\ calls = 2
     /\ firstModel # NoFile
     /\ firstModel.signals = <<exported(Files[1])>>
     /\ signals = <<exported(Files[2])>>)
        => /\ exportModel = firstModel.model
           /\ sink[Files[2]] = sink[Files[1]]

\* both exports of a grid with two retained cells have succeeded
C8_Witness ==
    /\ pc = "done"
    /\ calls = 2
    /\ firstModel # NoFile
    /\ firstModel.signals = <<exported(Files[1])>>
    /\ signals = <<exported(Files[2])>>
    /\ Len(nodes) = 2
    /\ Len(shapes) = 2

(* ------------------------------------------------------------------ *)
(* C9                                                                  *)
(* ------------------------------------------------------------------ *)
RootOf(doc) == DocNodes(doc)[Len(DocNodes(doc))]

\* C9 (as claimed): the root node's translation is (0, 2*height, 0) with
\* height the number of rows of the pixels grid, also when the declared
\* height differs from the number of rows.
C9_RootTranslationByRows ==
    (/\ pc = "done"
     /\ signals = <<exported(localFileName)>>
     /\ RetainedPositions(data.pixels) = WellFormedPositions(data.pixels))
        => RootOf(sink[localFileName]).translation = <<0, 2 * Len(data.pixels), 0>>

\* C9 (amended): the root node's translation is (0, 2*height, 0) with height
\* the declared height field of the input, whatever the number of rows.
C9_RootTranslationByDeclaredHeight ==
    /\ HasDocument => RootOf(exportModel).translation = <<0, 2 * InHeight, 0>>
    /\ (pc = "done" /\ signals = <<exported(localFileName)>>)
          => RootOf(sink[localFileName]).translation = <<0, 2 * InHeight, 0>>

\* a document was written for an input whose declared height is not the
\* number of its rows
C9_Witness ==
    /\ pc = "done"
    /\ HasDocument
    /\ signals = <<exported(localFileName)>>
    /\ InHeight # Len(data.pixels)
    /\ InHeight > 0
    /\ RootOf(sink[localFileName]).translation = <<0, 2 * InHeight, 0>>

(* ------------------------------------------------------------------ *)
(* C10                                                                 *)
(* ------------------------------------------------------------------ *)
\* C10: every invocation of write completes by emitting exactly one outcome
\* signal, error or exported, also for an accepted input without retained
\* cell, where the shape vector passed to insertShapeData is empty.
C10_ExactlyOneSignal ==
    (calls > 0 /\ Ended) =>
        /\ Len(signals) = 1
        /\ signals[1].signal \in {"error", "exported"}

====
